---- MODULE Spec2Model ----
(***************************************************************************)
(* Inventory backend (backend/app): product catalog, movement ledger and  *)
(* CSV import, over one shared SQLite store.                               *)
(*                                                                         *)
(* The store is the only shared state: `products` and `movements` are the *)
(* committed rows of the two tables.  A handler that commits once is one   *)
(* action.  The CSV import commits once per row: it is a process (`imp`)   *)
(* with a step for the header check, one per row up to its lookup and      *)
(* classification, one per write and commit, and one for the return.      *)
(* `resp` is the answer to the last request.  Decimal amounts (cost,       *)
(* price) are counted in cents.  The movement rows keep the columns the    *)
(* stock depends on (product_id, type, quantity).                          *)
(*                                                                         *)
(* `session` is the content of the client's signed session cookie and      *)
(* `clock` the server's time.time(), which the session gate compares.      *)
(* `hist` is the client's record of its imports: what it sent and the      *)
(* catalog it sent it to, for the import in flight and the last answered.  *)
(*                                                                         *)
(* Spec        all handlers, requests served one at a time                 *)
(* SpecCatalog the catalog handlers, on requests that differ in all fields *)
(* SpecImport  the import loop with catalog requests between its steps     *)
(* SpecRuns    one client exporting and importing, run after run           *)
(* SpecAuth    the session gate in front of the login, logout and others   *)
(***************************************************************************)
EXTENDS Integers, Sequences, FiniteSets, TLC

VARIABLES products, movements, imp, resp, session, clock, hist

vars == <<products, movements, imp, resp, session, clock, hist>>

(* ------------------------------ bounds -------------------------------- *)
\* Largest product rowid the model lets the store hand out.
MaxProductId == 2
\* Largest stock quantity an entry movement may reach in the model.
MaxQty == 2
\* Largest number of rows of the movements table.
MaxMovements == 2

(* ---------------------------- constants ------------------------------- *)
NameMaxLen == 200
SkuMaxLen == 64
CategoryMaxLen == 100
SupplierMaxLen == 100

\* The product columns a request body or a CSV row carries.
ProductFields ==
    {"sku", "name", "category", "supplier", "quantity", "min_stock", "cost", "price"}

ProductIds == 1..MaxProductId

Max(S) == CHOOSE m \in S : \A n \in S : n <= m

\* SQLite rowid of an INTEGER PRIMARY KEY column declared without the
\* AUTOINCREMENT keyword: one more than the largest rowid in the table.
NextRowId(ids) == IF ids = {} THEN 1 ELSE Max(ids) + 1

\* make_engine opens the connection without PRAGMA foreign_keys=ON, so SQLite
\* does not act on the FOREIGN KEY ... ON DELETE CASCADE clause of movements.
ForeignKeysEnforced == FALSE

(* ------------------------ request validation -------------------------- *)
\* Field constraints shared by ProductCreate and ProductUpdate.
FieldOk(f, v) ==
    CASE f = "name"      -> Len(v) >= 1 /\ Len(v) <= NameMaxLen
      [] f = "sku"       -> Len(v) >= 1 /\ Len(v) <= SkuMaxLen
      [] f = "category"  -> Len(v) <= CategoryMaxLen
      [] f = "supplier"  -> Len(v) <= SupplierMaxLen
      [] f = "quantity"  -> v >= 0
      [] f = "min_stock" -> v >= 0
      [] f = "cost"      -> v >= 0
      [] f = "price"     -> v >= 0

\* ProductCreate: a body with every field (defaults already filled in).
ProductCreateValid(body) == \A f \in ProductFields : FieldOk(f, body[f])

\* Mutant: ProductUpdate without its ge=0 constraints.
ProductUpdateValid_NoBounds(body) ==
    \A f \in DOMAIN body.data \ {"quantity", "min_stock", "cost", "price"} :
        FieldOk(f, body.data[f])

\* ProductUpdate: body.data holds the fields sent with a value, body.nulls the
\* fields sent as JSON null (Optional, so null passes validation).
ProductUpdateValid(body) == \A f \in DOMAIN body.data : FieldOk(f, body.data[f])

\* Mutant: quantity declared gt=1 instead of ge=1.
MovementCreateValid_Gt1(body) == body.type \in {"entry", "exit"} /\ body.quantity > 1

\* Mutant: the type literal lost "exit".
MovementCreateValid_EntryOnly(body) == body.type \in {"entry"} /\ body.quantity >= 1

\* MovementCreate: type is entry or exit, quantity >= 1.
MovementCreateValid(body) == body.type \in {"entry", "exit"} /\ body.quantity >= 1

(* --------------------------- the store -------------------------------- *)
\* Mutant: the sku column declared without unique=True.
SkuTaken_NotUnique(sku, except) == FALSE

\* The UNIQUE constraint on products.sku: another row holds this sku.
SkuTaken(sku, except) ==
    \E id \in DOMAIN products : id \notin except /\ products[id].sku = sku

\* The row INSERTed for a validated ProductCreate.
NewProduct(body, now) ==
    [sku |-> body.sku, name |-> body.name, category |-> body.category,
     supplier |-> body.supplier, quantity |-> body.quantity,
     min_stock |-> body.min_stock, cost |-> body.cost, price |-> body.price,
     created_at |-> now]

Insert(id, row) == [i \in DOMAIN products \cup {id} |->
                        IF i = id THEN row ELSE products[i]]

(* --------------------------- responses -------------------------------- *)
\* The fields ProductOut declares, all of them required.
ProductOutFields ==
    {"id", "name", "sku", "category", "supplier", "quantity", "min_stock",
     "low_stock", "cost", "price", "created_at"}

\* The keyword arguments _to_product_out passes to ProductOut.
ProductOutArgs(id, p) ==
    [id |-> id, name |-> p.name, sku |-> p.sku, category |-> p.category,
     supplier |-> p.supplier, quantity |-> p.quantity,
     min_stock |-> p.min_stock, cost |-> p.cost, price |-> p.price,
     created_at |-> p.created_at]

\* _to_product_out: ProductOut(**args) raises a validation error, which the
\* framework answers with 500, when a required field is not passed.
ToProductOut(op, id, p) ==
    LET args == ProductOutArgs(id, p)
        missing == ProductOutFields \ DOMAIN args
    IN  IF missing = {}
        THEN [op |-> op, status |-> 200, body |-> args]
        ELSE [op |-> op, status |-> 500,
              body |-> [error |-> "ValidationError", missing |-> missing]]

Error(op, status, detail) ==
    [op |-> op, status |-> status, body |-> [detail |-> detail]]

\* A request whose handler has not answered yet.
Pending(op) == [op |-> op, status |-> 0, body |-> [detail |-> "pending"]]

(* ------------------------- product catalog ---------------------------- *)
\* POST /api/products
create_product(body, now) ==
    /\ UNCHANGED <<movements, imp>>
    /\ IF ~ProductCreateValid(body)
       THEN /\ resp' = Error("create_product", 422, "validation")
            /\ UNCHANGED products
       ELSE IF SkuTaken(body.sku, {})
       THEN \* IntegrityError on commit: rollback, 409
            /\ resp' = Error("create_product", 409, "SKU ja existe")
            /\ UNCHANGED products
       ELSE LET id == NextRowId(DOMAIN products) IN
            /\ id <= MaxProductId
            /\ products' = Insert(id, NewProduct(body, now))
            /\ resp' = ToProductOut("create_product", id, products'[id])

\* GET /api/products/{product_id}
get_product(id) ==
    /\ UNCHANGED <<products, movements, imp>>
    /\ IF id \notin DOMAIN products
       THEN resp' = Error("get_product", 404, "Produto nao encontrado")
       ELSE resp' = ToProductOut("get_product", id, products[id])

\* Mutant: model_dump() without exclude_unset, a field not sent resetting quantity
\* to its default.
ApplyUpdate_ZeroQty(p, body) ==
    [f \in DOMAIN p |-> IF f \in DOMAIN body.data THEN body.data[f]
                        ELSE IF f = "quantity" THEN 0 ELSE p[f]]

\* Mutant: the text fields not sent are reset to their defaults.
ApplyUpdate_Defaults(p, body) ==
    [f \in DOMAIN p |-> IF f \in DOMAIN body.data THEN body.data[f]
                        ELSE IF f \in {"category", "supplier"} THEN "" ELSE p[f]]

\* setattr(p, k, v) for every item of payload.model_dump(exclude_unset=True).
ApplyUpdate(p, body) ==
    [f \in DOMAIN p |-> IF f \in DOMAIN body.data THEN body.data[f] ELSE p[f]]

\* PUT /api/products/{product_id}
update_product(id, body) ==
    /\ UNCHANGED <<movements, imp>>
    /\ IF ~ProductUpdateValid(body)
       THEN /\ resp' = Error("update_product", 422, "validation")
            /\ UNCHANGED products
       ELSE IF id \notin DOMAIN products
       THEN /\ resp' = Error("update_product", 404, "Produto nao encontrado")
            /\ UNCHANGED products
       ELSE LET p == ApplyUpdate(products[id], body) IN
            IF \/ body.nulls # {}              \* NOT NULL constraint
               \/ SkuTaken(p.sku, {id})        \* UNIQUE constraint
            THEN \* IntegrityError on commit: rollback, 409
                 /\ resp' = Error("update_product", 409, "SKU ja existe")
                 /\ UNCHANGED products
            ELSE /\ products' = [products EXCEPT ![id] = p]
                 /\ resp' = ToProductOut("update_product", id, products'[id])

\* The movements table after DELETE FROM products WHERE id = ...
CascadeDelete(id) ==
    IF ForeignKeysEnforced
    THEN SelectSeq(movements, LAMBDA m : m.product_id # id)
    ELSE movements

\* DELETE /api/products/{product_id}
delete_product(id) ==
    /\ UNCHANGED imp
    /\ IF id \notin DOMAIN products
       THEN /\ resp' = Error("delete_product", 404, "Produto nao encontrado")
            /\ UNCHANGED <<products, movements>>
       ELSE /\ products' = [i \in DOMAIN products \ {id} |-> products[i]]
            /\ movements' = CascadeDelete(id)
            /\ resp' = Error("delete_product", 204, "")

(* -------------------------- movement ledger --------------------------- *)
\* Net stock the ledger records for a product: entries minus exits.
RECURSIVE LedgerNet(_, _)
LedgerNet(ms, id) ==
    IF ms = <<>> THEN 0
    ELSE LET m == Head(ms)
             d == IF m.product_id # id THEN 0
                  ELSE IF m.type = "entry" THEN m.quantity ELSE 0 - m.quantity
         IN  d + LedgerNet(Tail(ms), id)

\* POST /api/products/{product_id}/movements
record_movement(id, body) ==
    /\ UNCHANGED imp
    /\ IF ~MovementCreateValid(body)
       THEN /\ resp' = Error("record_movement", 422, "validation")
            /\ UNCHANGED <<products, movements>>
       ELSE IF id \notin DOMAIN products
       THEN /\ resp' = Error("record_movement", 404, "Produto nao encontrado")
            /\ UNCHANGED <<products, movements>>
       ELSE LET before == products[id].quantity
                after == IF body.type = "entry" THEN before + body.quantity
                                                ELSE before - body.quantity
            IN  IF after < 0
                THEN /\ resp' = Error("record_movement", 400, "negative stock")
                     /\ UNCHANGED <<products, movements>>
                ELSE /\ after <= MaxQty
                     /\ Len(movements) < MaxMovements
                     /\ products' = [products EXCEPT ![id].quantity = after]
                     /\ movements' = Append(movements,
                            [id |-> Len(movements) + 1, product_id |-> id,
                             type |-> body.type, quantity |-> body.quantity])
                     /\ resp' = [op |-> "record_movement", status |-> 200,
                                 body |-> movements'[Len(movements')]]

(* ----------------------------- CSV import ----------------------------- *)
\* Mutant: min_stock left out of the header list.
CSV_HEADERS_NoMinStock ==
    <<"sku", "name", "category", "supplier", "quantity", "cost", "price">>

CSV_HEADERS ==
    <<"sku", "name", "category", "supplier", "quantity", "cost", "price", "min_stock">>

Range(s) == {s[k] : k \in DOMAIN s}

\* str.strip() on the cell texts the model uses.
Strip(s) ==
    CASE s = " A " -> "A"
      [] s = " "   -> ""
      [] OTHER     -> s

\* file.filename.lower().endswith(".csv") on the file names the model uses.
IsCsvName(n) ==
    CASE n = "products.csv" -> TRUE
      [] n = "DATA.CSV"     -> TRUE
      [] OTHER              -> FALSE

\* _parse_csv_upload: the header list as read, and one dict per data row with
\* keys and values stripped.
ParseCsvUpload(file) ==
    [headers |-> file.headers,
     data_rows |->
        [k \in DOMAIN file.rows |->
            LET r == file.rows[k] IN
            [h \in {Strip(c) : c \in DOMAIN r} |->
                Strip(r[CHOOSE c \in DOMAIN r : Strip(c) = h])]]]

\* row.get(key, default)
Get(row, key, default) == IF key \in DOMAIN row THEN row[key] ELSE default

\* Pydantic's str -> int coercion on the cell texts the model uses.
IsInt(s) == s \in {"0", "1", "2", "3", "-1"}
ParseInt(s) ==
    CASE s = "0" -> 0 [] s = "1" -> 1 [] s = "2" -> 2 [] s = "3" -> 3 [] s = "-1" -> 0 - 1

\* Pydantic's str -> Decimal coercion (in cents) on the cell texts the model uses.
IsDecimal(s) == s \in {"0", "0.00", "1.5", "1.50", "2.00", "-1"}
ParseDecimal(s) ==
    CASE s = "0" -> 0 [] s = "0.00" -> 0 [] s = "1.5" -> 150 [] s = "1.50" -> 150
      [] s = "2.00" -> 200 [] s = "-1" -> 0 - 100

\* ProductCreate.model_validate(payload_dict): coercion, then the field constraints.
ModelValidate(d) ==
    IF IsInt(d.quantity) /\ IsInt(d.min_stock) /\ IsDecimal(d.cost) /\ IsDecimal(d.price)
    THEN LET body == [sku |-> d.sku, name |-> d.name, category |-> d.category,
                      supplier |-> d.supplier, quantity |-> ParseInt(d.quantity),
                      min_stock |-> ParseInt(d.min_stock),
                      cost |-> ParseDecimal(d.cost), price |-> ParseDecimal(d.price)]
         IN  [ok |-> ProductCreateValid(body), value |-> body]
    ELSE [ok |-> FALSE, value |-> d]

NoSummary == [create |-> 0, update |-> 0, skip |-> 0, invalid |-> 0]
Idle == [pc |-> "idle"]
NoneSku == "<None>"

RowError(field, message) == [field |-> field, message |-> message]
PreviewRow(line, sku, action, errors) ==
    [line |-> line, sku |-> sku, action |-> action, errors |-> errors]

\* Mutant: the lookup misses the rows written since the import began.
Lookup_Never(sku) == 0

\* select(Product).where(Product.sku == sku).scalar_one_or_none(): the id, or 0.
Lookup(sku) ==
    IF SkuTaken(sku, {}) THEN CHOOSE id \in DOMAIN products : products[id].sku = sku
    ELSE 0

\* Mutant: create mode skips an existing sku without recording the error.
ModeAction_SilentSkip(mode, existing) ==
    CASE mode = "create" ->
            [action |-> IF existing # 0 THEN "skip" ELSE "create", errors |-> <<>>]
      [] mode = "update" ->
            [action |-> IF existing # 0 THEN "update" ELSE "skip",
             errors |-> IF existing = 0
                        THEN <<[field |-> "sku", message |-> "SKU nao encontrado"]>>
                        ELSE <<>>]
      [] OTHER ->
            [action |-> IF existing # 0 THEN "update" ELSE "create", errors |-> <<>>]

\* Mutant: the upsert branch forgets the product it found.
ModeAction_UpsertCreates(mode, existing) ==
    CASE mode = "create" ->
            [action |-> IF existing # 0 THEN "skip" ELSE "create",
             errors |-> IF existing # 0
                        THEN <<[field |-> "sku", message |-> "SKU ja existe (modo create)"]>>
                        ELSE <<>>]
      [] mode = "update" ->
            [action |-> IF existing # 0 THEN "update" ELSE "skip",
             errors |-> IF existing = 0
                        THEN <<[field |-> "sku", message |-> "SKU nao encontrado (modo update)"]>>
                        ELSE <<>>]
      [] OTHER -> [action |-> "create", errors |-> <<>>]

\* The tentative action of a row and the error its mode adds.
ModeAction(mode, existing) ==
    CASE mode = "create" ->
            [action |-> IF existing # 0 THEN "skip" ELSE "create",
             errors |-> IF existing # 0
                        THEN <<RowError("sku", "SKU ja existe (modo create)")>> ELSE <<>>]
      [] mode = "update" ->
            [action |-> IF existing # 0 THEN "update" ELSE "skip",
             errors |-> IF existing = 0
                        THEN <<RowError("sku", "SKU nao encontrado (modo update)")>>
                        ELSE <<>>]
      [] OTHER ->
            [action |-> IF existing # 0 THEN "update" ELSE "create", errors |-> <<>>]

\* POST /api/products/import, up to the row loop: file name and header checks.
import_begin(file, apply, mode) ==
    /\ imp.pc = "idle"
    /\ UNCHANGED <<products, movements>>
    /\ IF ~IsCsvName(file.filename)
       THEN /\ resp' = Error("import_products_csv", 400, "Envie um arquivo .csv")
            /\ UNCHANGED imp
       ELSE LET parsed == ParseCsvUpload(file)
                missing == SelectSeq(CSV_HEADERS, LAMBDA h : h \notin Range(parsed.headers))
            IN  IF missing # <<>>
                THEN /\ resp' = [op |-> "import_products_csv", status |-> 400,
                                 body |-> [error |-> "CSV invalido",
                                           missing_headers |-> missing,
                                           expected |-> CSV_HEADERS]]
                     /\ UNCHANGED imp
                ELSE /\ imp' = [pc |-> "row", headers |-> parsed.headers,
                                data_rows |-> parsed.data_rows, apply |-> apply,
                                mode |-> mode, i |-> 1, preview_rows |-> <<>>,
                                summary |-> NoSummary]
                     /\ resp' = Pending("import_products_csv")

\* payload_dict: the stripped sku and the row's other cells, with their defaults.
PayloadDict(row) ==
    [sku |-> Strip(Get(row, "sku", "")), name |-> Get(row, "name", ""),
     category |-> Get(row, "category", ""), supplier |-> Get(row, "supplier", ""),
     quantity |-> Get(row, "quantity", "0"), cost |-> Get(row, "cost", "0"),
     price |-> Get(row, "price", "0"), min_stock |-> Get(row, "min_stock", "0")]

\* Mutant: the write no longer asks for apply.
Applied_Always(apply, action) == action \in {"create", "update"}

\* Mutant: only the update rows are written.
Applied_UpdatesOnly(apply, action) == apply /\ action = "update"

\* if apply and action in {"create", "update"}: the row is written and committed.
Applied(apply, action) == apply /\ action \in {"create", "update"}

\* One iteration of the row loop up to the write: validation, lookup, classification.
import_row ==
    /\ imp.pc = "row"
    /\ imp.i <= Len(imp.data_rows)
    /\ UNCHANGED <<products, movements, resp>>
    /\ LET row == imp.data_rows[imp.i]
           line == imp.i + 1
           sku == Strip(Get(row, "sku", ""))
           errors0 == IF sku = "" THEN <<RowError("sku", "SKU e obrigatorio")>> ELSE <<>>
           payload_dict == PayloadDict(row)
           validated == ModelValidate(payload_dict)
           errors1 == IF errors0 = <<>> /\ ~validated.ok
                      THEN <<RowError("row", "validation")>> ELSE errors0
       IN  IF errors1 # <<>>
           THEN imp' = [imp EXCEPT
                    !.preview_rows = Append(@, PreviewRow(line,
                        IF sku = "" THEN NoneSku ELSE sku, "invalid", errors1)),
                    !.summary.invalid = @ + 1,
                    !.i = @ + 1]
           ELSE LET payload == validated.value
                    existing == Lookup(payload.sku)
                    m == ModeAction(imp.mode, existing)
                IN  IF m.errors # <<>>
                    THEN imp' = [imp EXCEPT
                            !.preview_rows = Append(@,
                                PreviewRow(line, payload.sku, "invalid", m.errors)),
                            !.summary.invalid = @ + 1,
                            !.i = @ + 1]
                    ELSE LET listed == [imp EXCEPT
                                !.preview_rows = Append(@,
                                    PreviewRow(line, payload.sku, m.action, <<>>)),
                                !.summary[m.action] = @ + 1]
                         IN  IF Applied(imp.apply, m.action)
                             THEN imp' = [pc |-> "commit", headers |-> listed.headers,
                                          data_rows |-> listed.data_rows,
                                          apply |-> listed.apply, mode |-> listed.mode,
                                          i |-> listed.i,
                                          preview_rows |-> listed.preview_rows,
                                          summary |-> listed.summary,
                                          action |-> m.action, payload |-> payload,
                                          existing |-> existing,
                                          loaded |-> IF existing # 0 THEN products[existing]
                                                     ELSE payload]
                             ELSE imp' = [listed EXCEPT !.i = @ + 1]

\* The loop state once the current row's write is over.
NextRow(st) ==
    [pc |-> "row", headers |-> st.headers, data_rows |-> st.data_rows,
     apply |-> st.apply, mode |-> st.mode, i |-> st.i + 1,
     preview_rows |-> st.preview_rows, summary |-> st.summary]

\* Mutant: the tentative counter is not taken back.
Reclassify_NoDecrement(st) ==
    LET n == Len(st.preview_rows) IN
    [st EXCEPT
        !.preview_rows[n].action = "invalid",
        !.preview_rows[n].errors =
            Append(@, [field |-> "sku", message |-> "Conflito de SKU / integridade"]),
        !.summary.invalid = @ + 1]

\* except IntegrityError: the last row becomes invalid and the counters move.
Reclassify(st) ==
    LET n == Len(st.preview_rows) IN
    [st EXCEPT
        !.preview_rows[n].action = "invalid",
        !.preview_rows[n].errors =
            Append(@, RowError("sku", "Conflito de SKU / integridade")),
        !.summary[st.action] = @ - 1,
        !.summary.invalid = @ + 1]

\* The columns an applied update row assigns.
ImportWrites == {"name", "category", "supplier", "quantity", "cost", "price", "min_stock"}

\* The write of an applied create or update row and its commit.
import_commit(now) ==
    /\ imp.pc = "commit"
    /\ UNCHANGED movements
    /\ IF imp.action = "create"
       THEN IF SkuTaken(imp.payload.sku, {})
            THEN \* IntegrityError: rollback, keep processing the other rows
                 /\ imp' = NextRow(Reclassify(imp))
                 /\ UNCHANGED <<products, resp>>
            ELSE LET id == NextRowId(DOMAIN products) IN
                 /\ id <= MaxProductId
                 /\ products' = Insert(id, NewProduct(imp.payload, now))
                 /\ imp' = NextRow(imp)
                 /\ UNCHANGED resp
       ELSE \* the unit of work UPDATEs the columns whose value differs from the one loaded
            LET changed == {f \in ImportWrites : imp.payload[f] # imp.loaded[f]} IN
            IF changed = {}
            THEN /\ imp' = NextRow(imp)
                 /\ UNCHANGED <<products, resp>>
            ELSE IF imp.existing \notin DOMAIN products
            THEN \* the UPDATE matches no row: StaleDataError, not caught
                 /\ resp' = Error("import_products_csv", 500, "StaleDataError")
                 /\ imp' = Idle
                 /\ UNCHANGED products
            ELSE /\ products' = [products EXCEPT ![imp.existing] =
                        [f \in DOMAIN @ |-> IF f \in changed THEN imp.payload[f] ELSE @[f]]]
                 /\ imp' = NextRow(imp)
                 /\ UNCHANGED resp

\* return ProductImportPreview(headers=..., rows=..., summary=...)
import_return ==
    /\ imp.pc = "row"
    /\ imp.i > Len(imp.data_rows)
    /\ UNCHANGED <<products, movements>>
    /\ resp' = [op |-> "import_products_csv", status |-> 200,
                body |-> [headers |-> imp.headers, rows |-> imp.preview_rows,
                          summary |-> imp.summary]]
    /\ imp' = Idle

(* ----------------------------- inputs ---------------------------------- *)
SKUs == {"A", "B"}
Times == {1}

Body(sku, name, category, supplier, quantity, min_stock, cost, price) ==
    [sku |-> sku, name |-> name, category |-> category, supplier |-> supplier,
     quantity |-> quantity, min_stock |-> min_stock, cost |-> cost, price |-> price]

Cells(sku, name, category, supplier, quantity, cost, price, min_stock) ==
    [sku |-> sku, name |-> name, category |-> category, supplier |-> supplier,
     quantity |-> quantity, cost |-> cost, price |-> price, min_stock |-> min_stock]

\* The header row of an exported file.
HeaderRow ==
    <<"sku", "name", "category", "supplier", "quantity", "cost", "price", "min_stock">>

CsvFile(rows) == [filename |-> "products.csv", headers |-> HeaderRow, rows |-> rows]

\* Inputs of Spec: the requests differ in sku and quantity.
CreateBodies ==
    {Body(s, "n1", "", "", q, 0, 0, 0) : s \in SKUs, q \in 0..MaxQty}
    \cup {Body("", "n1", "", "", 0, 0, 0, 0), Body("A", "n1", "", "", 0 - 1, 0, 0, 0)}

UpdateBodies ==
    {[data |-> [quantity |-> q], nulls |-> {}] : q \in (0 - 1)..MaxQty}
    \cup {[data |-> [sku |-> s], nulls |-> {}] : s \in SKUs}
    \cup {[data |-> [sku |-> "A"], nulls |-> {"quantity"}]}

MovementBodies ==
    {[type |-> t, quantity |-> n] : t \in {"entry", "exit"}, n \in 0..MaxQty}

RowA2 == Cells("A", "n1", "", "", "2", "0", "0", "0")
RowA0 == Cells(" A ", "n1", "", "", "0", "0", "0", "0")
RowBNeg == Cells("B", "n1", "", "", "-1", "0", "0", "0")

Files == {CsvFile(<<RowA2>>), CsvFile(<<RowBNeg, RowA0>>)}

(* ------------------------- the specification -------------------------- *)
\* No import sent yet.
NoRun == [sent |-> FALSE]

Init ==
    /\ products = <<>>
    /\ movements = <<>>
    /\ imp = Idle
    /\ resp = Error("init", 0, "")
    /\ session = <<>>
    /\ clock = 0
    /\ hist = [cur |-> NoRun, prev |-> NoRun]

\* The client's side of a step of the store: cookie, time and record untouched.
SameClient == UNCHANGED <<session, clock, hist>>

\* Requests served one at a time: no handler runs while an import is in its loop.
Quiet == imp.pc = "idle"

Next ==
    \/ /\ Quiet /\ \E body \in CreateBodies, now \in Times : create_product(body, now)
       /\ SameClient
    \/ /\ Quiet /\ \E id \in ProductIds, body \in UpdateBodies : update_product(id, body)
       /\ SameClient
    \/ /\ Quiet /\ \E id \in ProductIds : delete_product(id)
       /\ SameClient
    \/ /\ Quiet /\ \E id \in ProductIds, body \in MovementBodies : record_movement(id, body)
       /\ SameClient
    \/ /\ \E file \in Files : import_begin(file, TRUE, "upsert")
       /\ SameClient
    \/ /\ import_row
       /\ SameClient
    \/ /\ \E now \in Times : import_commit(now)
       /\ SameClient
    \/ /\ import_return
       /\ SameClient

Spec == Init /\ [][Next]_vars

(* ---- SpecCatalog: the catalog handlers alone, on requests that differ in ---- *)
(* ---- every field                                                         ---- *)
CatTimes == {1, 2}

CatCreateBodies ==
    {Body(s, "n1", "", "", q, 0, 0, 0) : s \in SKUs, q \in 0..1}
    \cup {Body("A", "", "", "", 0, 0, 0, 0), Body("B", "n1", "", "", 0, 0 - 1, 0, 0),
          Body("B", "n1", "", "", 0, 0, 0 - 100, 0)}

CatUpdateBodies ==
    {[data |-> [quantity |-> MaxQty, name |-> "n2"], nulls |-> {}],
     [data |-> [category |-> "c1", supplier |-> "s1"], nulls |-> {}],
     [data |-> [cost |-> 150, price |-> 200, min_stock |-> 1], nulls |-> {}],
     [data |-> [name |-> ""], nulls |-> {}],
     [data |-> [name |-> "n2"], nulls |-> {"quantity"}],
     [data |-> <<>>, nulls |-> {}]}
    \cup {[data |-> [sku |-> s], nulls |-> {}] : s \in SKUs}

NextCatalog ==
    \/ /\ \E body \in CatCreateBodies, now \in CatTimes : create_product(body, now)
       /\ SameClient
    \/ /\ \E id \in ProductIds : get_product(id)
       /\ SameClient
    \/ /\ \E id \in ProductIds, body \in CatUpdateBodies : update_product(id, body)
       /\ SameClient
    \/ /\ \E id \in ProductIds : delete_product(id)
       /\ SameClient

SpecCatalog == Init /\ [][NextCatalog]_vars

(* ---- SpecImport: the import loop, with catalog requests of other clients ---- *)
(* ---- served between its steps                                            ---- *)
ImpCreateBodies == {Body(s, "n1", "", "", 0, 0, 0, 0) : s \in SKUs}

ImpUpdateBodies == {[data |-> [sku |-> s], nulls |-> {}] : s \in SKUs}

RowB1 == Cells("B", "n1", "", "", "1", "1.50", "2.00", "1")
RowNoSku == Cells(" ", "n1", "", "", "1", "0", "0", "0")
RowBadCost == Cells("A", "n1", "", "", "1", "abc", "0", "0")
RowNoName == Cells("B", "", "", "", "1", "0", "0", "0")

Reverse(s) == [k \in DOMAIN s |-> s[Len(s) + 1 - k]]
Without(row, hs) == [h \in DOMAIN row \ hs |-> row[h]]

ImpFiles ==
    {CsvFile(<<RowA2>>),
     CsvFile(<<RowA0, RowA2>>),
     CsvFile(<<RowNoSku, RowBNeg>>),
     CsvFile(<<RowBadCost, RowB1>>),
     [filename |-> "DATA.CSV", headers |-> Reverse(HeaderRow), rows |-> <<RowNoName, RowB1>>],
     [filename |-> "products.csv",
      headers |-> SelectSeq(HeaderRow, LAMBDA h : h \notin {"sku", "min_stock"}),
      rows |-> <<Without(RowB1, {"sku", "min_stock"})>>],
     [filename |-> "products.csv",
      headers |-> SelectSeq(HeaderRow, LAMBDA h : h # "min_stock"),
      rows |-> <<Without(RowB1, {"min_stock"})>>],
     [filename |-> "products.csv", headers |-> <<>>, rows |-> <<>>],
     [filename |-> "notes.txt", headers |-> HeaderRow, rows |-> <<RowA2>>]}

Modes == {"create", "update", "upsert"}

NextImport ==
    \/ /\ \E body \in ImpCreateBodies, now \in Times : create_product(body, now)
       /\ SameClient
    \/ /\ \E id \in ProductIds, body \in ImpUpdateBodies : update_product(id, body)
       /\ SameClient
    \/ /\ \E id \in ProductIds : delete_product(id)
       /\ SameClient
    \/ /\ \E file \in ImpFiles, apply \in BOOLEAN, mode \in Modes :
               import_begin(file, apply, mode)
       /\ SameClient
    \/ /\ import_row
       /\ SameClient
    \/ /\ \E now \in Times : import_commit(now)
       /\ SameClient
    \/ /\ import_return
       /\ SameClient

SpecImport == Init /\ [][NextImport]_vars

(* ---- SpecRuns: one client that exports and imports, one request at a time ---- *)
Min(S) == CHOOSE m \in S : \A n \in S : m <= n

\* order_by(Product.id.asc())
RECURSIVE Ascending(_)
Ascending(ids) ==
    IF ids = {} THEN <<>> ELSE <<Min(ids)>> \o Ascending(ids \ {Min(ids)})

\* What csv.DictWriter writes for an int column, on the values the model stores.
StrInt(n) == CASE n = 0 -> "0" [] n = 1 -> "1" [] n = 2 -> "2" [] n = 3 -> "3"

\* str() of a Numeric(12, 2) column as loaded, on the amounts the model stores.
StrDecimal(cents) == CASE cents = 0 -> "0.00" [] cents = 150 -> "1.50" [] cents = 200 -> "2.00"

\* The file export_products_csv writes for a product table: the header row and one
\* row per product in id order, decoded as the client reads it back.
ExportCsv(ps) ==
    LET ids == Ascending(DOMAIN ps) IN
    [filename |-> "products.csv",
     headers |-> CSV_HEADERS,
     rows |-> [k \in DOMAIN ids |->
                LET p == ps[ids[k]] IN
                Cells(p.sku, p.name, p.category, p.supplier, StrInt(p.quantity),
                      StrDecimal(p.cost), StrDecimal(p.price), StrInt(p.min_stock))]]

\* GET /api/products.csv
export_products_csv ==
    /\ UNCHANGED <<products, movements, imp>>
    /\ resp' = [op |-> "export_products_csv", status |-> 200, body |-> ExportCsv(products)]

\* The client's note of an import it sends: the file, the parameters and the
\* catalog at that moment.
Sent(file, apply, mode) ==
    [sent |-> TRUE, file |-> file, apply |-> apply, mode |-> mode, before |-> products]

\* The client's note of an answered import: what it sent, the answer and the
\* catalog after it.
Answered(run, answer, after) ==
    [sent |-> TRUE, file |-> run.file, apply |-> run.apply, mode |-> run.mode,
     before |-> run.before, rows |-> answer.body.rows,
     summary |-> answer.body.summary, after |-> after]

RunCreateBodies ==
    {Body(" A ", "n1", "", "", 1, 0, 0, 0), Body("B", "n1", "", "", 1, 1, 150, 200)}

RunFiles == {CsvFile(<<RowA0, RowA2>>), CsvFile(<<RowBNeg, RowB1>>)}

\* The files the client has at hand: its own, the export it was last answered and
\* the file of its last import.
FilesAtHand ==
    RunFiles
    \cup (IF resp.op = "export_products_csv" THEN {resp.body} ELSE {})
    \cup (IF hist.prev.sent THEN {hist.prev.file} ELSE {})

\* The client keeps the note of its last import until its next request of
\* another kind.
OtherRequest == hist' = [cur |-> NoRun, prev |-> NoRun] /\ UNCHANGED <<session, clock>>

NextRuns ==
    \/ /\ Quiet /\ \E body \in RunCreateBodies, now \in Times : create_product(body, now)
       /\ OtherRequest
    \/ /\ Quiet /\ \E id \in ProductIds : delete_product(id)
       /\ OtherRequest
    \/ /\ Quiet /\ export_products_csv
       /\ OtherRequest
    \/ /\ \E file \in FilesAtHand, apply \in BOOLEAN, mode \in Modes :
            /\ import_begin(file, apply, mode)
            /\ hist' = IF imp'.pc = "row"
                       THEN [hist EXCEPT !.cur = Sent(file, apply, mode)] ELSE hist
       /\ UNCHANGED <<session, clock>>
    \/ /\ import_row
       /\ SameClient
    \/ /\ \E now \in Times : import_commit(now)
       /\ SameClient
    \/ /\ import_return
       /\ hist' = [cur |-> NoRun, prev |-> Answered(hist.cur, resp', products)]
       /\ UNCHANGED <<session, clock>>

SpecRuns == Init /\ [][NextRuns]_vars

(* ---- SpecAuth: the session gate, in front of the login, the logout and the ---- *)
(* ---- other handlers                                                        ---- *)
\* Largest value of time.time() the model lets the clock reach.
MaxClock == 4
\* SESSION_MAX_AGE_SECONDS of the model's settings.
SessionMaxAge == 2

UsernameMaxLen == 100
PasswordMaxLen == 200

\* ADMIN_USER and ADMIN_PASSWORD_HASH of the model's settings.
AdminUser == "admin"
PasswordHash(plain) == <<"pbkdf2_sha256", plain>>
AdminPasswordHash == PasswordHash("pw")

\* The allowlist the gate is constructed with.
PublicPaths == {"/health", "/login", "/api/login"}

\* path.startswith("/static") on the paths the model uses.
StartsWithStatic(path) ==
    CASE path = "/static/app.css" -> TRUE
      [] OTHER                    -> FALSE

\* path.startswith("/api/") on the paths the model uses.
StartsWithApi(path) ==
    CASE path = "/api/login"    -> TRUE
      [] path = "/api/logout"   -> TRUE
      [] path = "/api/products" -> TRUE
      [] OTHER                  -> FALSE

\* An empty session dict.
NoSession == <<>>

\* request.session.get("user"), falsy when absent or empty.
HasUser(sess) == "user" \in DOMAIN sess /\ sess.user # ""

\* Mutant: the expiry check is left out.
dispatch_NoExpiry(path, sess, now) ==
    IF path \in PublicPaths \/ StartsWithStatic(path) \/ path \in {"/app.js"}
    THEN [verdict |-> "call_next", session |-> sess]
    ELSE IF ~HasUser(sess)
         THEN [verdict |-> IF path = "/" \/ ~StartsWithApi(path) THEN "redirect" ELSE "401",
               session |-> sess]
         ELSE [verdict |-> "call_next", session |-> sess]

\* AuthMiddleware.dispatch: the verdict on a request and the session it leaves.
dispatch(path, sess, now) ==
    IF path \in PublicPaths \/ StartsWithStatic(path) \/ path \in {"/app.js"}
    THEN [verdict |-> "call_next", session |-> sess]
    ELSE LET expired == "exp" \in DOMAIN sess /\ sess.exp < now
             s == IF expired THEN NoSession ELSE sess
         IN  IF ~HasUser(s)
             THEN [verdict |-> IF path = "/" \/ ~StartsWithApi(path)
                               THEN "redirect" ELSE "401",
                   session |-> s]
             ELSE [verdict |-> "call_next", session |-> s]

\* The gate's own answers.
Redirect == [op |-> "dispatch", status |-> 302, body |-> [location |-> "/login"]]
NotAuthenticated ==
    [op |-> "dispatch", status |-> 401, body |-> [detail |-> "Not authenticated"]]

\* LoginRequest
LoginRequestValid(body) ==
    /\ Len(body.username) >= 1 /\ Len(body.username) <= UsernameMaxLen
    /\ Len(body.password) >= 1 /\ Len(body.password) <= PasswordMaxLen

verify_password(plain_password, password_hash) ==
    IF password_hash = <<>> THEN FALSE ELSE PasswordHash(plain_password) = password_hash

new_expiry_ts(now, max_age_seconds) == now + max_age_seconds

\* POST /api/login: the session and the answer it leaves.
login(body, sess, now) ==
    IF ~LoginRequestValid(body)
    THEN [session |-> sess, resp |-> Error("login", 422, "validation")]
    ELSE IF body.username = AdminUser /\ verify_password(body.password, AdminPasswordHash)
    THEN [session |-> [user |-> body.username, exp |-> new_expiry_ts(now, SessionMaxAge)],
          resp |-> [op |-> "login", status |-> 200, body |-> [ok |-> TRUE]]]
    ELSE [session |-> sess, resp |-> Error("login", 401, "Credenciais invalidas")]

\* POST /api/logout
logout(sess) ==
    [session |-> NoSession, resp |-> [op |-> "logout", status |-> 200, body |-> [ok |-> TRUE]]]

\* call_next(request): the handler the path is routed to.
call_next(path, body, sess, now) ==
    CASE path = "/api/login"  -> login(body, sess, now)
      [] path = "/api/logout" -> logout(sess)
      [] OTHER -> [session |-> sess,
                   resp |-> [op |-> "call_next", status |-> 200, body |-> [path |-> path]]]

\* A request of the client, through the gate.
http_request(path, body) ==
    /\ UNCHANGED <<products, movements, imp, clock, hist>>
    /\ LET gate == dispatch(path, session, clock) IN
       IF gate.verdict = "call_next"
       THEN LET handled == call_next(path, body, gate.session, clock) IN
            /\ session' = handled.session
            /\ resp' = handled.resp
       ELSE /\ session' = gate.session
            /\ resp' = IF gate.verdict = "redirect" THEN Redirect ELSE NotAuthenticated

\* time.time() moves on.
tick ==
    /\ clock < MaxClock
    /\ clock' = clock + 1
    /\ UNCHANGED <<products, movements, imp, resp, session, hist>>

Paths ==
    {"/health", "/login", "/api/login", "/static/app.css", "/app.js",
     "/", "/index.html", "/api", "/api/products", "/api/logout"}

LoginBodies ==
    {[username |-> "admin", password |-> "pw"],
     [username |-> "admin", password |-> "wrong"],
     [username |-> "guest", password |-> "pw"],
     [username |-> "", password |-> "pw"]}

NextAuth ==
    \/ \E path \in Paths, body \in LoginBodies : http_request(path, body)
    \/ tick

SpecAuth == Init /\ [][NextAuth]_vars

(* ======================= properties: stock and ledger ================== *)
Existing == DOMAIN products

\* quantity minus the ledger's net of a product.
Unposted(ps, ms, id) == ps[id].quantity - LedgerNet(ms, id)

\* C1: after any sequence of product create, product update, movement record and
\* applied CSV import, every stored product has quantity >= 0.
C1_QuantityNonNegative == \A id \in Existing : products[id].quantity >= 0

\* C1 witness: an applied import that rejected its negative-quantity row has
\* returned, movements are recorded, and a product sits at quantity 0.
C1_Witness ==
    /\ resp.op = "import_products_csv" /\ resp.status = 200
    /\ resp.body.summary.invalid = 1
    /\ Len(movements) > 0
    /\ \E id \in Existing : products[id].quantity = 0

\* C2: an exit movement larger than the product's quantity fails with 400 and
\* changes neither the product table nor the ledger.
C2_ExitBeyondStockRejected ==
    [][\A id \in ProductIds, body \in MovementBodies :
          (/\ id \in Existing
           /\ body.type = "exit"
           /\ body.quantity >= 1
           /\ body.quantity > products[id].quantity
           /\ resp'.op = "record_movement"
           /\ record_movement(id, body))
          => (/\ resp'.status = 400
              /\ products' = products
              /\ movements' = movements)]_vars

\* C2 witness: an exit was refused with 400 on a product that holds stock.
C2_Witness ==
    /\ resp.op = "record_movement" /\ resp.status = 400
    /\ \E id \in Existing : products[id].quantity > 0

\* C3: a valid movement on an existing product succeeds: an entry adds its amount
\* to the quantity, an exit of at most the quantity subtracts it, and exactly one
\* ledger row for that product is appended; nothing else changes.
C3_MovementEffect ==
    [][\A id \in ProductIds, body \in MovementBodies :
          (/\ id \in Existing
           /\ body.quantity >= 1
           /\ (body.type = "exit" => body.quantity <= products[id].quantity)
           /\ resp'.op = "record_movement"
           /\ record_movement(id, body))
          => (/\ resp'.status = 200
              /\ DOMAIN products' = DOMAIN products
              /\ products'[id].quantity =
                    IF body.type = "entry" THEN products[id].quantity + body.quantity
                    ELSE products[id].quantity - body.quantity
              /\ \A f \in DOMAIN products[id] \ {"quantity"} :
                    products'[id][f] = products[id][f]
              /\ \A o \in Existing \ {id} : products'[o] = products[o]
              /\ Len(movements') = Len(movements) + 1
              /\ SubSeq(movements', 1, Len(movements)) = movements
              /\ movements'[Len(movements')].product_id = id
              /\ movements'[Len(movements')].type = body.type
              /\ movements'[Len(movements')].quantity = body.quantity)]_vars

\* C3 witness: an exit was recorded after another movement and emptied the stock.
C3_Witness ==
    /\ resp.op = "record_movement" /\ resp.status = 200
    /\ resp.body.type = "exit"
    /\ Len(movements) = 2
    /\ resp.body.product_id \in Existing
    /\ products[resp.body.product_id].quantity = 0

\* C4 as claimed: for every product the ledger's entries minus exits equal quantity.
C4_LedgerEqualsQuantity ==
    \A id \in Existing : LedgerNet(movements, id) = products[id].quantity

\* C4 as amended: quantity minus the ledger's net of an existing product changes
\* only in a product update that sends quantity and in an applied import update
\* row; recording a movement and every other step leave it as it was.
C4_UnpostedStockPreserved ==
    [][\A id \in Existing \cap DOMAIN products' :
          \/ Unposted(products', movements', id) = Unposted(products, movements, id)
          \/ /\ resp'.op = "update_product"
             /\ \E body \in UpdateBodies :
                    "quantity" \in DOMAIN body.data /\ update_product(id, body)
          \/ /\ imp.pc = "commit" /\ imp.action = "update" /\ imp.existing = id
             /\ \E now \in Times : import_commit(now)]_vars

\* C4 witness: a movement was recorded on a product whose quantity differs from
\* its ledger net.
C4_Witness ==
    /\ resp.op = "record_movement" /\ resp.status = 200
    /\ resp.body.product_id \in Existing
    /\ Unposted(products, movements, resp.body.product_id) # 0

\* C7: every stored movement's product_id refers to a product that still exists.
C7_NoOrphanMovements ==
    \A k \in 1..Len(movements) : movements[k].product_id \in Existing
Committed(r) == r.status \notin {404, 409, 422}

\* C6: a committed product update sets the fields the request carries and leaves
\* every other field of the product, its id and created_at, every other product
\* and the ledger as they were.
C6_UpdateFrame ==
    [][\A id \in ProductIds, body \in CatUpdateBodies :
          (/\ id \in Existing
           /\ resp'.op = "update_product" /\ Committed(resp')
           /\ update_product(id, body))
          => (/\ DOMAIN products' = Existing
              /\ \A f \in DOMAIN products[id] :
                    products'[id][f] = IF f \in DOMAIN body.data THEN body.data[f]
                                       ELSE products[id][f]
              /\ products'[id].created_at = products[id].created_at
              /\ \A o \in Existing \ {id} : products'[o] = products[o]
              /\ movements' = movements)]_vars

\* C6 witness: an update was committed on one of two products, and a product
\* carries the values of two different updates.
C6_Witness ==
    /\ resp.op = "update_product" /\ Committed(resp)
    /\ Cardinality(Existing) = 2
    /\ \E id \in Existing : products[id].name = "n2" /\ products[id].category = "c1"

\* C8: a product returned by create, read or update carries low_stock equal to
\* quantity <= min_stock.
C8_LowStockFlag ==
    (resp.op \in {"create_product", "get_product", "update_product"} /\ Committed(resp))
    => (/\ resp.status = 200
        /\ "low_stock" \in DOMAIN resp.body
        /\ resp.body.low_stock = (resp.body.quantity <= resp.body.min_stock))

(* ========================== properties: import ========================= *)
RequiredHeaders ==
    {"sku", "name", "category", "supplier", "quantity", "cost", "price", "min_stock"}

\* C9: an import whose header row lacks a required header is answered 400 with the
\* list of the missing headers; it enters no row loop and changes no table, with
\* apply=true as with apply=false.
C9_MissingHeadersRejected ==
    /\ [](imp.pc # "idle" => RequiredHeaders \subseteq Range(imp.headers))
    /\ [][\A file \in ImpFiles, apply \in BOOLEAN, mode \in Modes :
            (/\ imp.pc = "idle" /\ resp'.op = "import_products_csv"
             /\ IsCsvName(file.filename)
             /\ RequiredHeaders \ Range(file.headers) # {}
             /\ import_begin(file, apply, mode))
            => (/\ resp'.status = 400
                /\ Range(resp'.body.missing_headers) = RequiredHeaders \ Range(file.headers)
                /\ imp' = imp
                /\ products' = products
                /\ movements' = movements)]_vars

\* C9 witness: an import was answered 400 for its missing sku and min_stock headers
\* while products are stored.
C9_Witness ==
    /\ resp.op = "import_products_csv" /\ resp.status = 400
    /\ "missing_headers" \in DOMAIN resp.body
    /\ resp.body.missing_headers = <<"sku", "min_stock">>
    /\ Existing # {}

\* The classification C10 gives a row, from its cells, the mode and the catalog.
C10_Expected(row, mode) ==
    LET d == PayloadDict(row)
        exists == \E id \in Existing : products[id].sku = d.sku
    IN  IF d.sku = "" \/ ~ModelValidate(d).ok THEN "invalid"
        ELSE CASE mode = "upsert" -> IF exists THEN "update" ELSE "create"
               [] mode = "create" -> IF exists THEN "invalid" ELSE "create"
               [] mode = "update" -> IF exists THEN "update" ELSE "invalid"

\* C10: the row loop classifies each row as the claim's table says (empty sku or
\* failed coercion: invalid; else by mode and by whether the sku is stored), a row
\* refused for its mode carries an sku error, and a row with an error is invalid.
C10_Classification ==
    /\ [](imp.pc # "idle" =>
            \A k \in 1..Len(imp.preview_rows) :
                imp.preview_rows[k].errors # <<>> => imp.preview_rows[k].action = "invalid")
    /\ [][import_row =>
            LET row == imp.data_rows[imp.i]
                n == Len(imp'.preview_rows)
                last == imp'.preview_rows[n]
                expected == C10_Expected(row, imp.mode)
                d == PayloadDict(row)
            IN  /\ n = Len(imp.preview_rows) + 1
                /\ SubSeq(imp'.preview_rows, 1, n - 1) = imp.preview_rows
                /\ last.action = expected
                /\ (expected = "invalid" /\ d.sku # "" /\ ModelValidate(d).ok)
                        => \E e \in Range(last.errors) : e.field = "sku"]_vars

\* C10 witness: in create mode a well-formed row whose sku is stored was classified
\* invalid with the sku error.
C10_Witness ==
    /\ imp.pc # "idle" /\ imp.mode = "create"
    /\ \E k \in 1..Len(imp.preview_rows) :
          /\ imp.preview_rows[k].action = "invalid"
          /\ \E e \in Range(imp.preview_rows[k].errors) :
                e.message = "SKU ja existe (modo create)"

\* A step of the import handler.
ImportStep ==
    \/ \E file \in ImpFiles, apply \in BOOLEAN, mode \in Modes :
            import_begin(file, apply, mode)
    \/ import_row
    \/ \E now \in Times : import_commit(now)
    \/ import_return

\* C11: no step of an import run with apply=false changes the product table or the
\* ledger, whatever the file and the mode; a step of an apply=true import changes
\* the product table only for a row whose final classification is create or
\* update, and then only by that row's insert or by an update of the row's product.
C11_PreviewWritesNothing ==
    /\ [](imp.pc = "commit" => imp.apply)
    /\ [][(imp'.pc # "idle" \/ imp.pc # "idle") /\ ImportStep =>
            /\ movements' = movements
            /\ \/ products' = products
               \/ /\ imp.pc = "commit" /\ imp.apply
                  /\ LET last == imp'.preview_rows[Len(imp'.preview_rows)] IN
                     /\ last.action \in {"create", "update"}
                     /\ last.line = imp.i + 1
                     /\ IF last.action = "create"
                        THEN /\ Cardinality(DOMAIN products') = Cardinality(Existing) + 1
                             /\ \A id \in Existing : products'[id] = products[id]
                        ELSE /\ DOMAIN products' = Existing
                             /\ \A id \in Existing \ {imp.existing} :
                                    products'[id] = products[id]]_vars

\* C11 witness: a preview has classified one row create and one row update and is
\* about to return, to a catalog that does not hold the sku of the create row.
C11_Witness ==
    /\ imp.pc = "row" /\ ~imp.apply /\ imp.i > Len(imp.data_rows)
    /\ \E j, k \in 1..Len(imp.preview_rows) :
          /\ imp.preview_rows[j].action = "create"
          /\ imp.preview_rows[k].action = "update"
          /\ ~SkuTaken(imp.preview_rows[j].sku, {})

(* ==================== properties: import, run after run ================ *)
\* The import in flight has classified all its rows and is about to answer.
Finished == imp.pc = "row" /\ imp.i > Len(imp.data_rows)

\* The import in flight repeats the last answered one: the same file, both with
\* apply=true and mode=upsert, sent to the catalog the first one left.
SecondRun ==
    /\ Finished /\ hist.prev.sent
    /\ imp.apply /\ imp.mode = "upsert"
    /\ hist.prev.apply /\ hist.prev.mode = "upsert"
    /\ hist.cur.file = hist.prev.file
    /\ hist.cur.before = hist.prev.after

\* C12 as claimed: on the second of two identical apply=true, mode=upsert imports
\* every row is classified update and the catalog ends as the first run left it.
C12_SecondRunAllUpdate ==
    SecondRun =>
        /\ \A k \in 1..Len(imp.preview_rows) : imp.preview_rows[k].action = "update"
        /\ products = hist.prev.after

\* C12 as amended: on the second run no row is classified create; a row the first
\* run found invalid is invalid again with the same errors, every other row is
\* classified update; and the catalog ends as the first run left it.
C12_SecondRunIdempotent ==
    SecondRun =>
        /\ Len(imp.preview_rows) = Len(hist.prev.rows)
        /\ \A k \in 1..Len(imp.preview_rows) :
              IF hist.prev.rows[k].action = "invalid"
              THEN imp.preview_rows[k] = hist.prev.rows[k]
              ELSE imp.preview_rows[k].action = "update"
        /\ products = hist.prev.after

\* C12 witness: a second run ends whose first run created a product and then
\* updated it with another quantity.
C12_Witness ==
    /\ SecondRun
    /\ hist.prev.summary.create = 1 /\ hist.prev.summary.update = 1
    /\ \E id \in Existing : products[id].quantity = 2

\* The import in flight re-imports, with apply=true and mode=upsert, the export of
\* the catalog it was sent to.
RoundTrip ==
    /\ Finished /\ imp.apply /\ imp.mode = "upsert"
    /\ hist.cur.file = ExportCsv(hist.cur.before)

\* C13: re-importing the export of a catalog with mode=upsert and apply=true
\* classifies every row update, creates no product and leaves every product's
\* sku, name, category, supplier, quantity, cost, price and min_stock as it was.
C13_RoundTrip ==
    RoundTrip =>
        /\ Len(imp.preview_rows) = Cardinality(DOMAIN hist.cur.before)
        /\ \A k \in 1..Len(imp.preview_rows) : imp.preview_rows[k].action = "update"
        /\ DOMAIN products = DOMAIN hist.cur.before
        /\ \A id \in DOMAIN hist.cur.before : \A f \in ProductFields :
              products[id][f] = hist.cur.before[id][f]

\* The rows before the current one that the import in flight created with this sku.
CreatedEarlier(sku) ==
    {j \in 1..Len(imp.preview_rows) :
        imp.preview_rows[j].action = "create" /\ imp.preview_rows[j].sku = sku}

\* C14: an apply=true import takes its rows in input order, and the write of a row
\* is committed or has failed before the next row is looked up: a row whose sku an
\* earlier row of the batch created finds that product (update in upsert mode,
\* invalid in create mode), and exactly one product with that sku results.
C14_RowsInOrder ==
    /\ [](imp.pc = "row" => Len(imp.preview_rows) = imp.i - 1)
    /\ [](imp.pc = "commit" => Len(imp.preview_rows) = imp.i)
    /\ [](imp.pc # "idle" /\ imp.apply =>
            \A j \in 1..Len(imp.preview_rows) :
                /\ imp.preview_rows[j].line = j + 1
                /\ (imp.preview_rows[j].action = "create" /\ (imp.pc = "row" \/ j < imp.i))
                     => Cardinality({id \in Existing :
                            products[id].sku = imp.preview_rows[j].sku}) = 1)
    /\ [][import_row =>
            LET d == PayloadDict(imp.data_rows[imp.i])
                last == imp'.preview_rows[Len(imp'.preview_rows)]
            IN  /\ last.line = imp.i + 1
                /\ \/ imp'.pc = "row" /\ imp'.i = imp.i + 1
                   \/ imp'.pc = "commit" /\ imp'.i = imp.i
                /\ (imp.apply /\ ModelValidate(d).ok /\ CreatedEarlier(d.sku) # {})
                     => last.action = IF imp.mode = "create" THEN "invalid" ELSE "update"]_vars
    /\ [][(imp.pc = "commit" /\ \E now \in Times : import_commit(now)) =>
            imp'.pc = "row" /\ imp'.i = imp.i + 1]_vars

\* C14 witness: an apply=true import in create mode ends with its first row
\* create and its second row, of the same sku, invalid, one product holding the sku.
C14_Witness ==
    /\ Finished /\ imp.apply /\ imp.mode = "create"
    /\ Len(imp.preview_rows) = 2
    /\ imp.preview_rows[1].action = "create"
    /\ imp.preview_rows[2].action = "invalid"
    /\ imp.preview_rows[1].sku = imp.preview_rows[2].sku
    /\ Cardinality({id \in Existing : products[id].sku = imp.preview_rows[1].sku}) = 1

\* The apply=true import in flight was previewed just before: the same file and
\* mode, sent with apply=false to the same catalog.
Previewed ==
    /\ Finished /\ hist.prev.sent
    /\ imp.apply /\ ~hist.prev.apply
    /\ hist.cur.file = hist.prev.file
    /\ hist.cur.mode = hist.prev.mode
    /\ hist.cur.before = hist.prev.before

SeesEarlierCreate ==
    {k \in 1..Len(imp.preview_rows) :
        \E j \in 1..(k - 1) : /\ imp.preview_rows[j].action = "create"
                               /\ imp.preview_rows[j].sku = imp.preview_rows[k].sku}

C15_OneResultPerRow ==
    /\ [](imp.pc # "idle" =>
            \A k \in 1..Len(imp.preview_rows) : imp.preview_rows[k].line = k + 1)
    /\ [][import_row =>
            /\ Len(imp'.preview_rows) = imp.i
            /\ imp'.pc = "row" => imp'.i = imp.i + 1]_vars
    /\ [][(imp.pc = "commit" /\ \E now \in Times : import_commit(now)) =>
            /\ imp'.pc = "row" /\ imp'.i = imp.i + 1
            /\ Len(imp'.preview_rows) = imp.i]_vars
    /\ [][(imp.pc # "idle" /\ imp'.pc = "idle") =>
            /\ resp'.op = "import_products_csv" /\ resp'.status = 200
            /\ Len(resp'.body.rows) = Len(imp.data_rows)
            /\ \A k \in 1..Len(imp.data_rows) :
                  /\ resp'.body.rows[k].line = k + 1
                  /\ resp'.body.rows[k].sku \in
                        {PayloadDict(imp.data_rows[k]).sku, NoneSku}]_vars

\* Since the lookup of the row that waits to commit, another client has created a
\* product with the row's sku: one is stored that the lookup did not load.
CreatedSinceLookup ==
    /\ imp.pc = "commit"
    /\ \E id \in Existing :
          /\ products[id].sku = imp.payload.sku
          /\ \/ imp.existing = 0
             \/ id # imp.existing
             \/ products[id].created_at # imp.loaded.created_at

\* C17: when another client creates a product with a row's sku between the row's
\* lookup and its commit, the commit is rolled back (the other client's product
\* and the rest of the table stay as they are), the row becomes invalid with an
\* added sku error, its tentative counter goes down by one and invalid up by one,
\* and the import goes on with the next row.
C17_RaceReclassified ==
    [][(CreatedSinceLookup /\ \E now \in Times : import_commit(now)) =>
          LET n == Len(imp.preview_rows) IN
          /\ products' = products
          /\ imp'.pc = "row" /\ imp'.i = imp.i + 1
          /\ Len(imp'.preview_rows) = n
          /\ SubSeq(imp'.preview_rows, 1, n - 1) = SubSeq(imp.preview_rows, 1, n - 1)
          /\ imp'.preview_rows[n].action = "invalid"
          /\ imp'.preview_rows[n].errors =
                Append(imp.preview_rows[n].errors,
                       RowError("sku", "Conflito de SKU / integridade"))
          /\ imp'.summary[imp.action] = imp.summary[imp.action] - 1
          /\ imp'.summary.invalid = imp.summary.invalid + 1]_vars

Classifications == {"create", "update", "skip", "invalid"}

\* The number of rows of a result list whose action is c.
Count(rows, c) == Cardinality({k \in 1..Len(rows) : rows[k].action = c})

\* The counters of a summary tally the rows of a result list.
Tallies(summary, rows) ==
    /\ \A c \in Classifications : summary[c] = Count(rows, c) /\ summary[c] >= 0
    /\ summary.create + summary.update + summary.skip + summary.invalid = Len(rows)

\* C18: after every row of an import, a row whose write failed included, and in
\* every import response that carries a summary, each counter equals the number
\* of result rows with that final action, none is negative, and the four sum to
\* the number of rows processed: in the response, the number of data rows.
C18_SummaryTallies ==
    /\ [](imp.pc # "idle" => Tallies(imp.summary, imp.preview_rows))
    /\ []((resp.op = "import_products_csv" /\ resp.status = 200)
            => Tallies(resp.body.summary, resp.body.rows))
    /\ [][import_return =>
            /\ resp'.body.summary = imp.summary
            /\ Len(resp'.body.rows) = Len(imp.data_rows)]_vars

\* C18 witness: an import answered with two rows, one of them a create that lost
\* its race and was reclassified invalid, the other counted as written.
C18_Witness ==
    /\ resp.op = "import_products_csv" /\ resp.status = 200
    /\ Len(resp.body.rows) = 2
    /\ resp.body.summary.invalid = 1
    /\ resp.body.summary.create + resp.body.summary.update = 1
    /\ \E k \in 1..2 : \E e \in Range(resp.body.rows[k].errors) :
          e.message = "Conflito de SKU / integridade"

(* ======================= properties: session gate ====================== *)
\* The public allowlist: /health, /login, /api/login and the static assets.
IsPublic(path) == path \in {"/health", "/login", "/api/login", "/static/app.css", "/app.js"}

IsApiPath(path) == path \in {"/api/login", "/api/logout", "/api/products"}

\* The session carries a user and its expiry timestamp is not in the past.
Authenticated == DOMAIN session = {"user", "exp"} /\ session.user # "" /\ session.exp >= clock

\* The request was passed to its handler: the answer is not the gate's.
Passed(r) == r.op # "dispatch"

\* C16: a request for a public path is always passed to its handler; a request for
\* any other path is passed only when the session carries a user and its expiry is
\* not in the past, and is otherwise answered 401 on an /api/ path and redirected
\* to /login elsewhere; a session whose expiry is in the past is cleared by the
\* gate.  A logout leaves an empty session, and only a successful login fills an
\* empty session again, so protected API requests get 401 in between.
C16_SessionGate ==
    /\ [](DOMAIN session \in {{}, {"user", "exp"}})
    /\ [](resp.op = "logout" => DOMAIN session = {})
    /\ [][(DOMAIN session = {} /\ DOMAIN session' # {})
            => (resp'.op = "login" /\ resp'.status = 200 /\ session'.exp >= clock)]_vars
    /\ [][\A path \in Paths, body \in LoginBodies :
            (clock' = clock /\ http_request(path, body)) =>
                IF IsPublic(path) THEN Passed(resp')
                ELSE IF Authenticated THEN Passed(resp')
                ELSE /\ ~Passed(resp')
                     /\ DOMAIN session' = {}
                     /\ IF IsApiPath(path)
                        THEN resp'.status = 401
                        ELSE resp'.status = 302 /\ resp'.body.location = "/login"]_vars

\* C16 witness: a request for a protected API path was passed to its handler
\* with a session of a later login whose expiry is the present second.
C16_Witness ==
    /\ resp.op = "call_next" /\ resp.body.path = "/api/products"
    /\ Authenticated
    /\ session.exp = clock /\ session.exp > SessionMaxAge
====
